---- MODULE Spec2Model ----
(***************************************************************************)
(* Model of src/generate_from_scenes.py: the job submission / polling /    *)
(* asset retrieval client of the Scenario text-to-image API.               *)
(*                                                                         *)
(* One behaviour is one call of an entry point: main (the scene loop) or   *)
(* one of submit_txt2img, poll_job, fetch_asset_url called directly.       *)
(* The remote service is the environment: every HTTP request is answered   *)
(* nondeterministically (status code, body shape, time taken).             *)
(***************************************************************************)
EXTENDS Integers, Sequences, FiniteSets, TLC

\* ------------------------------------------------------------------ bounds
MaxScenes == 2
MaxAssets == 2
MaxInterval == 3
MaxTimeout == 10
MaxMainTimeout == 1
MaxChunks == 2     \* chunks of a response body, bytes of a file already there
MaxCalls == 2      \* calls of download_file for the same url and destination
MaxLatency == 1

\* ------------------------------------------------------------ python values
\* Python's None among string values.
NONE == "<None>"

\* Truth value of an optional string (`if not x`): None and "" are falsy.
Truthy(x) == x # NONE /\ x # ""

\* f"{x}": None is formatted as the text None.
Fmt(x) == IF x = NONE THEN "None" ELSE x

\* Credential values a caller can pass: None, the empty string, a real value.
KeyValues == {NONE, "", "key"}
SecretValues == {NONE, "", "secret"}

Entries == {"main", "submit_txt2img", "poll_job", "fetch_asset_url",
            "download_file", "search_google"}

\* The entry points that build the Basic auth headers from the credentials;
\* download_file and search_google take no credentials.
AuthEntries == {"main", "submit_txt2img", "poll_job", "fetch_asset_url"}

SceneIds == 1..MaxScenes

\* The identifier the remote service gives the job created by the s-th
\* submission of a run (an identifier names one job).
JobIdOf(s) == "job_" \o ToString(s)

\* Asset identifiers are opaque to the client; the n-th one the service names.
AssetName(n) == "asset_" \o ToString(n)

\* The assetIds lists a finished job can carry: n distinct ids, or (ids may
\* repeat) n times the same id.
AssetLists ==
    {[k \in 1..n |-> AssetName(k)] : n \in 0..MaxAssets}
    \cup {[k \in 1..n |-> AssetName(1)] : n \in 2..MaxAssets}

\* ------------------------------------------------------------ status values
Statuses == {NONE, "running", "queued", "success", "failure", "canceled"}

VARIABLES
    entry,          \* the entry point this run calls
    api_key,        \* credentials (main: from env or args)
    api_secret,
    nScenes,        \* len(scenes)
    poll_interval,  \* args.poll_interval / poll_interval parameter
    timeout,        \* args.timeout / timeout parameter
    pc,             \* position in the code
    exc,            \* the exception that left the entry point, or "none"
    i,              \* main's scene number (enumerate(scenes, start=1))
    resp,           \* body returned by submit_txt2img
    posts,          \* per scene: number of submission POSTs sent for it
    submitEnd,      \* per scene: how its submit_txt2img call ended
    job_id,         \* per scene: the job id main extracted, or NONE
    elapsed,        \* time.time() - start inside poll_job
    slow,           \* some HTTP call of the current poll_job call took time
    status,         \* per scene: last status poll_job observed ("unpolled" before)
    pollEnd,        \* per scene: how poll_job ended
    asset_ids,      \* main's asset_ids of the current scene
    idx,            \* main's position in asset_ids (enumerate(..., start=1))
    asset_url,      \* value returned by fetch_asset_url
    job_info,       \* value returned by poll_job
    n_assets,       \* per scene: len(asset_ids) of its finished job
    saved,          \* per scene: positions idx whose file was written
    attempted,      \* asset ids given to fetch_asset_url, in order, and
    dest,           \* download_file: dest_path
    file,           \* content of the file at dest
    before,         \* content of the file at dest when the current call began
    remote,         \* the chunks the server streams for the url
    pos,            \* download_file: chunks of the response consumed so far
    calls,          \* download_file calls made for this url and destination
    attempt,        \* search_google: number of the current attempt (tenacity)
    answers,        \* search_google: how each request of the call was answered
    net             \* HTTP requests sent, in order: both during the current
                    \* iteration of the scene loop (or the direct call)

vars == <<entry, api_key, api_secret, nScenes, poll_interval, timeout, pc, exc,
          i, resp, posts, submitEnd, job_id, elapsed, slow, status, pollEnd,
          job_info, asset_ids, idx, asset_url, n_assets, saved, attempted, net,
          dest, file, before, remote, pos, calls, attempt, answers>>

\* The state of the retrying wrapper of search_google.
searchVars == <<attempt, answers>>

\* The state of download_file's destination and of the caller repeating it.
fileVars == <<dest, file, before, remote, pos, calls>>

\* ------------------------------------------------------- make_auth_headers
\* Variant of AuthOk with a slip: the key is checked instead of the secret.
AuthOkChecksKey(key, secret) == Truthy(key)

\* Line 38: the only check is on the secret.
AuthOk(key, secret) == Truthy(secret)

\* Lines 41-45: "Basic " + base64(f"{api_key}:{api_secret}"); base64 is
\* injective, so the header is modelled by the text it encodes.
AuthHeader(key, secret) == <<"Basic", Fmt(key), Fmt(secret)>>

\* An HTTP request: method, <<endpoint, id>>, the scene whose prompt is the
\* payload (0 when there is no payload), and the Authorization header.
Request(method, target, scene) ==
    [method |-> method, target |-> target, scene |-> scene,
     auth |-> AuthHeader(api_key, api_secret)]

\* download_file sends no Authorization header (line 109).
PlainRequest(method, target) ==
    [method |-> method, target |-> target, scene |-> 0, auth |-> <<>>]

\* How a request can be answered: a 2xx response, a non-2xx response
\* (raise_for_status raises HTTPError), or no response at all (the HTTP
\* library raises ConnectionError).
Answers == {"ok", "http_error", "conn_error"}

ErrorOf(answer) == IF answer = "http_error" THEN "HTTPError" ELSE "ConnectionError"

\* ------------------------------------------------------ submission response
EmptyObj == [present |-> FALSE, jobId |-> NONE, id |-> NONE]

\* A JSON object under "job" or "data": absent/empty, or a non-empty object
\* whose "jobId" / "id" may each be missing.
JobObjs(s) ==
    {EmptyObj} \cup
    {[present |-> TRUE, jobId |-> a, id |-> b] :
        a \in {NONE, "", JobIdOf(s)}, b \in {NONE, JobIdOf(s)}}

SubmitBodies(s) == [job : JobObjs(s), data : JobObjs(s)]

NoResp == [job |-> EmptyObj, data |-> EmptyObj]

\* Lines 164-165: resp.get("job") or resp.get("data") or {}, then
\* job_obj.get("jobId") or job_obj.get("id").
ExtractJobId(body) ==
    LET job_obj == IF body.job.present THEN body.job
                   ELSE IF body.data.present THEN body.data
                   ELSE EmptyObj
    IN IF Truthy(job_obj.jobId) THEN job_obj.jobId ELSE job_obj.id

\* ---------------------------------------------------------- status response
\* The "job" object of a status response.
JobBodies ==
    {[status |-> s, hasMeta |-> FALSE, hasAssetIds |-> FALSE, assetIds |-> <<>>] :
        s \in Statuses}
    \cup
    {[status |-> "success", hasMeta |-> TRUE, hasAssetIds |-> FALSE, assetIds |-> <<>>]}
    \cup
    {[status |-> "success", hasMeta |-> TRUE, hasAssetIds |-> TRUE, assetIds |-> l] :
        l \in AssetLists}

NoJob == [status |-> NONE, hasMeta |-> FALSE, hasAssetIds |-> FALSE, assetIds |-> <<>>]

\* The download URL the asset endpoint reports for an asset.
UrlOf(aid) == "https://cdn/" \o aid

\* ------------------------------------------------------------ download_file
\* Bytes and the chunks r.iter_content yields; a chunk may be empty.
Bytes == {1, 2}

Chunks == {<<>>} \cup {<<b>> : b \in Bytes}

\* Sequences over S of length at most n.
SeqsUpTo(S, n) == UNION {[1..k -> S] : k \in 0..n}

\* The response bodies for the url, as the chunks they are streamed in.
Bodies == SeqsUpTo(Chunks, MaxChunks)

\* The bytes of a sequence of chunks.
RECURSIVE Flatten(_)
Flatten(chunks) ==
    IF chunks = <<>> THEN <<>> ELSE Head(chunks) \o Flatten(Tail(chunks))

\* No file at the destination.
Absent == [exists |-> FALSE, bytes |-> <<>>]

\* What may be at the destination before a call: nothing, or a file with
\* any content (a partial or complete earlier download among them).
PriorFiles ==
    {Absent} \cup {[exists |-> TRUE, bytes |-> b] : b \in SeqsUpTo(Bytes, MaxChunks)}

\* Variant of OpenWb with a slip: the file is opened in append mode ("ab").
OpenAb(f) == [exists |-> TRUE, bytes |-> f.bytes]

\* Line 114: open(dest_path, "wb") creates the file or truncates it.
OpenWb(f) == [exists |-> TRUE, bytes |-> <<>>]

\* Lines 116-117: a chunk is written unless it is empty.
WriteChunk(f, chunk) ==
    IF chunk # <<>> THEN [f EXCEPT !.bytes = @ \o chunk] ELSE f

\* {i:03d}: decimal, padded with zeros to at least three digits.
Pad3(n) ==
    IF n < 10 THEN "00" \o ToString(n)
    ELSE IF n < 100 THEN "0" \o ToString(n)
    ELSE ToString(n)

\* --out-dir default (line 196).
OutDir == "outputs"

\* Variant of PathOf with a slip: the asset index is left out of the name.
PathOfWithoutAssetIndex(s, k) ==
    OutDir \o "/scene_" \o Pad3(s) \o "/scene_" \o Pad3(s) \o "_asset.png"

\* Lines 178 and 184: scene_out_dir / f"scene_{i:03d}_asset_{idx}.png".
PathOf(s, k) ==
    OutDir \o "/scene_" \o Pad3(s) \o "/scene_" \o Pad3(s)
           \o "_asset_" \o ToString(k) \o ".png"

\* Line 173: job_info.get("metadata", {}).get("assetIds", []).
AssetIdsOf(job) ==
    IF job.hasMeta /\ job.hasAssetIds THEN job.assetIds ELSE <<>>

\* Variants of PollDecision with one slip each, used to test the claims.
\* On timeout the last observed job is returned instead of raising.
PollDecisionReturnsOnTimeout(st, el, to) ==
    IF st = "success" THEN "return"
    ELSE IF st \in {"failure", "canceled"} THEN "RuntimeError"
    ELSE IF el > to THEN "return"
    ELSE "sleep"

\* The timeout check comes before every status check.
PollDecisionTimeoutBeforeStatus(st, el, to) ==
    IF el > to THEN "TimeoutError"
    ELSE IF st = "success" THEN "return"
    ELSE IF st \in {"failure", "canceled"} THEN "RuntimeError"
    ELSE "sleep"

\* The timeout check comes before the failure check.
PollDecisionTimeoutFirst(st, el, to) ==
    IF st = "success" THEN "return"
    ELSE IF el > to THEN "TimeoutError"
    ELSE IF st \in {"failure", "canceled"} THEN "RuntimeError"
    ELSE "sleep"

\* The timeout comparison is >= instead of >.
PollDecisionTimeoutAtDeadline(st, el, to) ==
    IF st = "success" THEN "return"
    ELSE IF st \in {"failure", "canceled"} THEN "RuntimeError"
    ELSE IF el >= to THEN "TimeoutError"
    ELSE "sleep"

\* "canceled" is missing from the failure statuses.
PollDecisionIgnoresCanceled(st, el, to) ==
    IF st = "success" THEN "return"
    ELSE IF st \in {"failure"} THEN "RuntimeError"
    ELSE IF el > to THEN "TimeoutError"
    ELSE "sleep"

\* Lines 86-92: what poll_job does with one observed status.
PollDecision(st, el, to) ==
    IF st = "success" THEN "return"
    ELSE IF st \in {"failure", "canceled"} THEN "RuntimeError"
    ELSE IF el > to THEN "TimeoutError"
    ELSE "sleep"

\* ------------------------------------------------------------------- Init
Init ==
    /\ entry \in Entries
    /\ api_key \in (IF entry \in AuthEntries THEN KeyValues ELSE {NONE})
    /\ api_secret \in (IF entry \in AuthEntries THEN SecretValues ELSE {NONE})
    /\ nScenes \in (IF entry = "main" THEN 0..MaxScenes ELSE {1})
    /\ poll_interval \in (IF entry = "poll_job" THEN 1..MaxInterval ELSE {1})
    /\ timeout \in (CASE entry = "main" -> 0..MaxMainTimeout
                        [] entry = "poll_job" -> 0..MaxTimeout
                        [] OTHER -> {0})
    /\ pc = (CASE entry = "main" -> "main"
               [] entry = "submit_txt2img" -> "submit"
               [] entry = "poll_job" -> "poll"
               [] entry = "fetch_asset_url" -> "fetch"
               [] entry = "download_file" -> "download"
               [] entry = "search_google" -> "search")
    /\ exc = "none"
    /\ i = (IF entry = "main" THEN 0 ELSE 1)
    /\ resp = NoResp
    /\ posts = [s \in SceneIds |-> 0]
    /\ submitEnd = [s \in SceneIds |-> "none"]
    /\ job_id = [s \in SceneIds |-> IF entry = "poll_job" /\ s = 1 THEN JobIdOf(1) ELSE NONE]
    /\ elapsed = 0
    /\ slow = FALSE
    /\ status = [s \in SceneIds |-> "unpolled"]
    /\ pollEnd = [s \in SceneIds |-> "none"]
    /\ asset_ids \in (IF entry = "fetch_asset_url" THEN {<<AssetName(1)>>} ELSE {<<>>})
    /\ idx = (IF entry = "fetch_asset_url" THEN 1 ELSE 0)
    /\ asset_url = (IF entry = "download_file" THEN UrlOf(AssetName(1)) ELSE NONE)
    /\ job_info = NoJob
    /\ attempted = <<>>
    /\ dest = (IF entry = "download_file" THEN PathOf(1, 1) ELSE NONE)
    /\ file \in (IF entry = "download_file" THEN PriorFiles ELSE {Absent})
    /\ before = file
    /\ remote \in (IF entry = "download_file" THEN Bodies ELSE {<<<<1>>>>})
    /\ pos = 0
    /\ calls = (IF entry = "download_file" THEN 1 ELSE 0)
    /\ attempt = (IF entry = "search_google" THEN 1 ELSE 0)
    /\ answers = <<>>
    /\ n_assets = [s \in SceneIds |-> 0]
    /\ saved = [s \in SceneIds |-> {}]
    /\ net = <<>>

\* ---------------------------------------------------------- control flow
InMain == entry = "main"

\* An exception leaves the entry point (in main: uncaught, the run aborts).
Raise(e) == pc' = "raised" /\ exc' = e

\* Control moves to position p of the same call.
Goto(p) == pc' = p /\ exc' = exc

\* ------------------------------------------------------------------ main
\* Lines 121-141: credential checks before the scene loop.
MainStart ==
    /\ pc = "main"
    /\ IF ~Truthy(api_key) \/ ~Truthy(api_secret)
         THEN Raise("SystemExit")
         ELSE Goto("for_scene")
    /\ UNCHANGED <<searchVars, fileVars, posts, submitEnd, entry, api_key, api_secret, nScenes, poll_interval, timeout,
                   i, resp, job_id, elapsed, slow, status, pollEnd, job_info,
                   asset_ids, idx, asset_url, n_assets, saved, attempted, net>>

\* Line 143: `for i, scene in enumerate(scenes, start=1)`, reached at the
\* start, on every `continue` and at the end of the loop body: the next
\* scene, or the end of main.  The locals of the finished iteration are
\* dead (each is assigned again before it is read), so they are cleared,
\* and the record of the finished iteration's calls is closed.
ForScene ==
    /\ pc = "for_scene"
    /\ IF i + 1 > nScenes
         THEN Goto("returned") /\ i' = i
         ELSE Goto("submit") /\ i' = i + 1
    /\ resp' = NoResp
    /\ job_info' = NoJob
    /\ asset_ids' = <<>>
    /\ idx' = 0
    /\ asset_url' = NONE
    /\ elapsed' = 0
    /\ slow' = FALSE
    /\ attempted' = <<>>
    /\ net' = <<>>
    /\ UNCHANGED <<searchVars, fileVars, posts, submitEnd, entry, api_key, api_secret, nScenes, poll_interval, timeout,
                   job_id, status, pollEnd, n_assets, saved>>

\* Variant of SubmitErrorTarget with a slip: the `continue` is replaced by a
\* new attempt for the same scene.
SubmitErrorTargetRetries == "submit"

\* Variant of SubmitErrorTarget with a slip: the handler re-raises.
SubmitErrorTargetAborts == "raised"

\* Lines 159-161: `except requests.HTTPError` reports and continues with
\* the next scene.
SubmitErrorTarget == "for_scene"

\* submit_txt2img (lines 51-68) and, in main, its try/except (lines 147-161).
SubmitTxt2img ==
    /\ pc = "submit"
    /\ IF ~AuthOk(api_key, api_secret)
         THEN /\ Raise("ValueError")
              /\ submitEnd' = [submitEnd EXCEPT ![i] = "ValueError"]
              /\ UNCHANGED <<resp, net, posts>>
         ELSE /\ net' = Append(net, Request("POST", <<"generate/txt2img", "">>, i))
              /\ posts' = [posts EXCEPT ![i] = @ + 1]
              /\ \E answer \in Answers :
                    IF answer = "ok"
                    THEN /\ \E body \in SubmitBodies(i) : resp' = body
                         /\ submitEnd' = [submitEnd EXCEPT ![i] = "return"]
                         /\ Goto(IF InMain THEN "extract" ELSE "returned")
                    ELSE /\ submitEnd' = [submitEnd EXCEPT ![i] = ErrorOf(answer)]
                         /\ UNCHANGED resp
                         /\ IF answer = "http_error" /\ InMain
                              THEN Goto(SubmitErrorTarget)
                              ELSE Raise(ErrorOf(answer))
    /\ UNCHANGED <<searchVars, fileVars, entry, api_key, api_secret, nScenes, poll_interval, timeout,
                   i, job_id, elapsed, slow, status, pollEnd, job_info,
                   asset_ids, idx, asset_url, n_assets, saved, attempted>>

\* Lines 163-170: the job id of the submission response, or skip the scene.
\* resp is not read after these lines.
ExtractJob ==
    /\ pc = "extract"
    /\ IF ~Truthy(ExtractJobId(resp))
         THEN Goto("for_scene") /\ UNCHANGED job_id
         ELSE /\ job_id' = [job_id EXCEPT ![i] = ExtractJobId(resp)]
              /\ Goto("poll")
    /\ resp' = NoResp
    /\ UNCHANGED <<searchVars, fileVars, posts, submitEnd, entry, api_key, api_secret, nScenes, poll_interval, timeout,
                   i, elapsed, slow, status, pollEnd, job_info,
                   asset_ids, idx, asset_url, n_assets, saved, attempted, net>>

\* ---------------------------------------------------------------- poll_job
\* Lines 70-73: the auth headers, then start = time.time().
PollStart ==
    /\ pc = "poll"
    /\ IF ~AuthOk(api_key, api_secret)
         THEN /\ Raise("ValueError")
              /\ pollEnd' = [pollEnd EXCEPT ![i] = "ValueError"]
         ELSE /\ Goto("poll_get")
              /\ pollEnd' = [pollEnd EXCEPT ![i] = "polling"]
    /\ elapsed' = 0
    /\ slow' = FALSE
    /\ UNCHANGED <<searchVars, fileVars, posts, submitEnd, entry, api_key, api_secret, nScenes, poll_interval, timeout,
                   i, resp, job_id, status, job_info,
                   asset_ids, idx, asset_url, n_assets, saved, attempted, net>>

\* Variant of Clock with a slip: start is taken again on every turn of the
\* loop, so only the duration of the last request counts.
ClockRestarts(now, d) == elapsed' = d /\ slow' = (slow \/ d > 0)

\* time.time() - start after a request that took d, inside poll_job.
Clock(now, d) == elapsed' = now /\ slow' = (slow \/ d > 0)

\* Lines 75-91: one status request and what follows from its answer.  When
\* poll_job returns into main its frame (start, the clock) is gone.
PollGet ==
    /\ pc = "poll_get"
    /\ net' = Append(net, Request("GET", <<"jobs", job_id[i]>>, 0))
    /\ \E d \in 0..MaxLatency, answer \in Answers :
         LET now == elapsed + d IN
         IF answer # "ok"
         THEN /\ Raise(ErrorOf(answer))
              /\ Clock(now, d)
              /\ pollEnd' = [pollEnd EXCEPT ![i] = ErrorOf(answer)]
              /\ UNCHANGED <<status, job_info>>
         ELSE \E job \in JobBodies :
              LET decision == PollDecision(job.status, now, timeout) IN
              /\ status' = [status EXCEPT ![i] = job.status]
              /\ IF decision = "return"
                   THEN /\ job_info' = job
                        /\ pollEnd' = [pollEnd EXCEPT ![i] = "return"]
                        /\ IF InMain
                             THEN Goto("assets") /\ elapsed' = 0 /\ slow' = FALSE
                             ELSE Goto("returned") /\ Clock(now, d)
                   ELSE IF decision = "sleep"
                   THEN /\ Goto("poll_sleep")
                        /\ Clock(now, d)
                        /\ UNCHANGED <<job_info, pollEnd>>
                   ELSE /\ Raise(decision)
                        /\ Clock(now, d)
                        /\ pollEnd' = [pollEnd EXCEPT ![i] = decision]
                        /\ UNCHANGED job_info
    /\ UNCHANGED <<searchVars, fileVars, posts, submitEnd, entry, api_key, api_secret, nScenes, poll_interval, timeout,
                   i, resp, job_id, asset_ids, idx, asset_url, n_assets, saved, attempted>>

\* Line 92: time.sleep(poll_interval).
PollSleep ==
    /\ pc = "poll_sleep"
    /\ elapsed' = elapsed + poll_interval
    /\ Goto("poll_get")
    /\ UNCHANGED <<searchVars, fileVars, posts, submitEnd, entry, api_key, api_secret, nScenes, poll_interval, timeout,
                   i, resp, job_id, slow, status, pollEnd, job_info,
                   asset_ids, idx, asset_url, n_assets, saved, attempted, net>>

\* ------------------------------------------------------------- asset loop
\* Lines 173-179: the asset ids of the finished job; none means next scene.
BeginAssets ==
    /\ pc = "assets"
    /\ asset_ids' = AssetIdsOf(job_info)
    /\ n_assets' = [n_assets EXCEPT ![i] = Len(AssetIdsOf(job_info))]
    /\ Goto(IF AssetIdsOf(job_info) = <<>> THEN "for_scene" ELSE "for_asset")
    /\ UNCHANGED <<searchVars, fileVars, posts, submitEnd, entry, api_key, api_secret, nScenes, poll_interval, timeout,
                   i, resp, job_id, elapsed, slow, status, pollEnd, job_info,
                   idx, asset_url, saved, attempted, net>>

\* Line 181: `for idx, aid in enumerate(asset_ids, start=1)`: the next
\* asset, or the end of the scene's loop body.
ForAsset ==
    /\ pc = "for_asset"
    /\ IF idx + 1 > Len(asset_ids)
         THEN Goto("for_scene") /\ idx' = idx
         ELSE Goto("fetch") /\ idx' = idx + 1
    /\ UNCHANGED <<searchVars, fileVars, posts, submitEnd, entry, api_key, api_secret, nScenes, poll_interval, timeout,
                   i, resp, job_id, elapsed, slow, status, pollEnd, job_info,
                   asset_ids, asset_url, n_assets, saved, attempted, net>>

\* Variant of AssetErrorTarget with a slip: the handler leaves the asset loop.
AssetErrorTargetLeavesLoop == "for_scene"

\* Variant of AssetErrorTarget with a slip: the error is not handled and
\* ends the run.
AssetErrorTargetAborts == "raised"

\* Lines 187-188: `except Exception` inside the asset loop only reports;
\* control goes on to the next asset.
AssetErrorTarget == "for_asset"

\* fetch_asset_url (lines 94-105) and, in main, its call at line 183 inside
\* try/except Exception (lines 182-188).
FetchAssetUrl ==
    /\ pc = "fetch"
    /\ attempted' = Append(attempted, asset_ids[idx])
    /\ IF ~AuthOk(api_key, api_secret)
         THEN /\ UNCHANGED <<net, asset_url, dest>>
              /\ IF InMain THEN Goto(AssetErrorTarget) ELSE Raise("ValueError")
         ELSE /\ net' = Append(net, Request("GET", <<"assets", asset_ids[idx]>>, 0))
              /\ \E answer \in Answers \cup {"no_url"} :
                    IF answer = "ok"
                    THEN /\ asset_url' = UrlOf(asset_ids[idx])
                         /\ dest' = (IF InMain THEN PathOf(i, idx) ELSE dest)
                         /\ Goto(IF InMain THEN "download" ELSE "returned")
                    ELSE /\ UNCHANGED <<asset_url, dest>>
                         /\ IF InMain
                              THEN Goto(AssetErrorTarget)
                              ELSE Raise(IF answer = "no_url" THEN "KeyError"
                                                              ELSE ErrorOf(answer))
    /\ UNCHANGED <<searchVars, posts, submitEnd, entry, api_key, api_secret, nScenes, poll_interval, timeout,
                   i, resp, job_id, elapsed, slow, status, pollEnd, job_info,
                   asset_ids, idx, n_assets, saved, file, before, remote, pos, calls>>

\* An error leaves download_file: inside main's try/except Exception (lines
\* 182-188) it is reported and the loop goes on; a direct caller gets it.
\* In main the destination of the next download is another file, so the
\* record of this one is closed.
DownloadRaise(e) ==
    IF InMain
    THEN Goto(AssetErrorTarget) /\ dest' = NONE /\ file' = Absent
    ELSE Raise(e) /\ dest' = dest /\ file' = file

\* download_file, lines 107-114: the GET with stream=True, raise_for_status
\* and open(dest_path, "wb").  Neither a refused request nor a failing open
\* touches the file.  The url is not read after the request.
DownloadFile ==
    /\ pc = "download"
    /\ net' = Append(net, PlainRequest("GET", <<"url", asset_url>>))
    /\ asset_url' = NONE
    /\ pos' = 0
    /\ \E answer \in Answers \cup {"open_error"} :
         IF answer = "ok"
         THEN /\ file' = OpenWb(file)
              /\ dest' = dest
              /\ Goto("download_write")
         ELSE DownloadRaise(IF answer = "open_error" THEN "OSError"
                                                     ELSE ErrorOf(answer))
    /\ UNCHANGED <<searchVars, posts, submitEnd, entry, api_key, api_secret, nScenes, poll_interval, timeout,
                   i, resp, job_id, elapsed, slow, status, pollEnd, job_info,
                   asset_ids, idx, n_assets, saved, attempted, before, remote, calls>>

\* Lines 115-117: one turn of `for chunk in r.iter_content(...)`.  Reading
\* the next chunk can fail, which leaves the file with what was written.
DownloadChunk ==
    /\ pc = "download_write"
    /\ pos < Len(remote)
    /\ \/ /\ file' = WriteChunk(file, remote[pos + 1])
          /\ pos' = pos + 1
          /\ dest' = dest
          /\ Goto("download_write")
       \/ /\ pos' = 0
          /\ DownloadRaise("ConnectionError")
    /\ UNCHANGED <<searchVars, posts, submitEnd, entry, api_key, api_secret, nScenes, poll_interval, timeout,
                   i, resp, job_id, elapsed, slow, status, pollEnd, job_info,
                   asset_ids, idx, asset_url, n_assets, saved, attempted, net,
                   before, remote, calls>>

\* Lines 115-119: the response is exhausted, the file is closed and
\* dest_path returned.  In main the destination of the next download is
\* another file, so the record of this one is closed.
DownloadReturn ==
    /\ pc = "download_write"
    /\ pos = Len(remote)
    /\ pos' = 0
    /\ IF InMain
         THEN /\ saved' = [saved EXCEPT ![i] = @ \cup {idx}]
              /\ dest' = NONE
              /\ file' = Absent
              /\ Goto("for_asset")
         ELSE /\ UNCHANGED <<saved, dest, file>>
              /\ Goto("returned")
    /\ UNCHANGED <<searchVars, posts, submitEnd, entry, api_key, api_secret, nScenes, poll_interval, timeout,
                   i, resp, job_id, elapsed, slow, status, pollEnd, job_info,
                   asset_ids, idx, asset_url, n_assets, attempted, net,
                   before, remote, calls>>

\* download_file is called again with the same url and destination after
\* a call that returned or raised.
DownloadAgain ==
    /\ entry = "download_file"
    /\ pc \in {"returned", "raised"}
    /\ calls < MaxCalls
    /\ calls' = calls + 1
    /\ pc' = "download"
    /\ exc' = "none"
    /\ asset_url' = UrlOf(AssetName(1))
    /\ UNCHANGED <<searchVars, posts, submitEnd, entry, api_key, api_secret, nScenes, poll_interval, timeout,
                   i, resp, job_id, elapsed, slow, status, pollEnd, job_info,
                   asset_ids, idx, n_assets, saved, attempted, net,
                   dest, file, remote, pos>>
    /\ before' = file

\* ------------------------------------------- generate_leads.search_google
\* stop_after_attempt(3) of the @retry decorator.
StopAfterAttempt == 3

\* How the POST of one attempt can be answered: status 200, another status,
\* or an exception of the HTTP library (connection error, request timeout).
SearchAnswers == {"200", "non200", "transport"}

\* Variant of SearchRetries with a slip: every exception is retried.
SearchRetriesAnyError(answer) == answer # "200"

\* retry_if_exception_type(SerperAPIError): only the exception raised for
\* a status other than 200 is retried.
SearchRetries(answer) == answer = "non200"

\* One attempt of search_google under tenacity's @retry: the POST, the
\* status check, and what the wrapper does with the outcome.  A result is
\* returned; an exception the retry predicate accepts leads to a wait and
\* another attempt unless the stop condition holds, in which case
\* RetryError is raised; any other exception is raised as it is.
SearchGoogle ==
    /\ pc = "search"
    /\ net' = Append(net, PlainRequest("POST", <<"serper/search", "">>))
    /\ \E answer \in SearchAnswers :
         /\ answers' = Append(answers, answer)
         /\ IF answer = "200"
              THEN Goto("returned")
              ELSE IF SearchRetries(answer)
              THEN (IF attempt >= StopAfterAttempt
                    THEN Raise("RetryError")
                    ELSE Goto("search_wait"))
              ELSE Raise("ConnectionError")
    /\ UNCHANGED <<fileVars, posts, submitEnd, entry, api_key, api_secret, nScenes,
                   poll_interval, timeout, i, resp, job_id, elapsed, slow, status,
                   pollEnd, job_info, asset_ids, idx, asset_url, n_assets, saved,
                   attempted, attempt>>

\* wait_exponential(...) between two attempts, then the next attempt.
SearchWait ==
    /\ pc = "search_wait"
    /\ attempt' = attempt + 1
    /\ Goto("search")
    /\ UNCHANGED <<fileVars, posts, submitEnd, entry, api_key, api_secret, nScenes,
                   poll_interval, timeout, i, resp, job_id, elapsed, slow, status,
                   pollEnd, job_info, asset_ids, idx, asset_url, n_assets, saved,
                   attempted, net, answers>>

Next ==
    \/ MainStart
    \/ ForScene
    \/ SubmitTxt2img
    \/ ExtractJob
    \/ PollStart
    \/ PollGet
    \/ PollSleep
    \/ BeginAssets
    \/ ForAsset
    \/ FetchAssetUrl
    \/ DownloadFile
    \/ DownloadChunk
    \/ DownloadReturn
    \/ DownloadAgain
    \/ SearchGoogle
    \/ SearchWait

Spec == Init /\ [][Next]_vars

\* One call of poll_job on its own.  The call is sequential code: provided
\* each HTTP call returns and each sleep ends, its next step is always
\* taken, which is weak fairness of its steps.
PollInit == Init /\ entry = "poll_job"

PollNext == PollStart \/ PollGet \/ PollSleep

PollSpec == PollInit /\ [][PollNext]_vars /\ WF_vars(PollNext)

\* ================================================================ claims
\* Vocabulary of the claims.
Terminal == {"success", "failure", "canceled"}

RunEnded == pc \in {"returned", "raised"}

\* poll_job was called for scene s and its call has ended.
PollEnded(s) == pollEnd[s] \notin {"none", "polling"}

\* C1: poll_job never returns a job in a non-terminal state.  Whenever a
\* poll_job call has returned normally, the status it observed last, which
\* is the status of the job it returns, is success, failure or canceled;
\* every call that ended otherwise ended with an exception leaving it, and
\* the timeout error only ends a call whose job was still non-terminal.
C1_PollNeverReturnsNonTerminal ==
    \A s \in SceneIds :
        /\ pollEnd[s] = "return" =>
              /\ status[s] \in Terminal
              /\ (i = s /\ (pc = "assets" \/ (~InMain /\ pc = "returned"))) =>
                    job_info.status \in Terminal
        /\ (PollEnded(s) /\ pollEnd[s] # "return") =>
              pc = "raised" /\ exc = pollEnd[s]
        /\ pollEnd[s] = "TimeoutError" => status[s] \notin Terminal

\* A direct poll_job call that returned after at least one non-terminal poll.
C1_Witness ==
    /\ entry = "poll_job"
    /\ pc = "returned"
    /\ pollEnd[1] = "return"
    /\ Len(net) >= 2

\* C3: remote failure and client timeout are distinguishable outcomes.
\* poll_job ends with RuntimeError exactly when the status it observed last
\* is failure or canceled; it ends with TimeoutError only when the status
\* observed last is non-terminal and the elapsed time exceeds the timeout,
\* and it never goes on to sleep after a non-terminal observation once the
\* elapsed time exceeds the timeout.
C3_FailureAndTimeoutDistinct ==
    \A s \in SceneIds :
        /\ (pollEnd[s] = "RuntimeError") <=> (status[s] \in {"failure", "canceled"})
        /\ pollEnd[s] = "TimeoutError" =>
              /\ status[s] \notin Terminal \cup {"unpolled"}
              /\ elapsed > timeout
        /\ (pc = "poll_sleep" /\ i = s) =>
              /\ status[s] \notin Terminal \cup {"unpolled"}
              /\ elapsed <= timeout

\* A call that observed failure after the deadline: the remote failure is
\* reported, not the timeout.
C3_Witness ==
    /\ entry = "poll_job"
    /\ pollEnd[1] = "RuntimeError"
    /\ status[1] = "failure"
    /\ elapsed > timeout
    /\ exc = "RuntimeError"

\* C4: for a job that is non-terminal at every poll, with HTTP calls taking
\* no time, poll_job sends its k-th status request at elapsed time
\* (k-1) * poll_interval, never waits beyond timeout + poll_interval, and
\* raises TimeoutError at the first poll instant after the timeout: at an
\* elapsed time > timeout and <= timeout + poll_interval.  With interval 3
\* and timeout 10 it polls at 0, 3, 6, 9 and raises at the poll at 12.
C4_TimeoutNotEarlierNotIndefinitely ==
    (entry = "poll_job" /\ ~slow) =>
        /\ pc = "poll_get" =>
              /\ elapsed = Len(net) * poll_interval
              /\ elapsed <= timeout + poll_interval
        /\ pc = "poll_sleep" => elapsed = (Len(net) - 1) * poll_interval
        /\ pollEnd[1] = "TimeoutError" =>
              /\ elapsed > timeout
              /\ elapsed <= timeout + poll_interval
              /\ elapsed = (Len(net) - 1) * poll_interval
              /\ (poll_interval = 3 /\ timeout = 10) => (elapsed = 12 /\ Len(net) = 5)

\* The scenario of the claim: interval 3, timeout 10, timed out.
C4_Witness ==
    /\ entry = "poll_job"
    /\ ~slow
    /\ poll_interval = 3
    /\ timeout = 10
    /\ pollEnd[1] = "TimeoutError"
    /\ elapsed = 12


\* C2: in main, a poll error (remote failure/cancellation or timeout) of a
\* scene that is not the last one does not abort the batch: when the run
\* has ended, the scene after it was reached and submitted.
C2_PollErrorDoesNotAbortBatch ==
    \A s \in SceneIds :
        (InMain /\ RunEnded /\ s < nScenes
            /\ pollEnd[s] \in {"RuntimeError", "TimeoutError"}) => i > s

\* C5: submission yields a non-empty job identifier or a raised error: a
\* submit_txt2img call that returned normally carries a job identifier in
\* the body it returns.
C5_SubmitYieldsJobIdOrError ==
    (entry = "submit_txt2img" /\ pc = "returned") => Truthy(ExtractJobId(resp))

\* C6: when either credential is absent (key or secret None/empty), a call
\* of submit_txt2img, poll_job or fetch_asset_url sends no HTTP request and
\* ends with the configuration error.
C6_EitherCredentialMissingNoRequest ==
    (entry \in AuthEntries /\ ~InMain
       /\ (~Truthy(api_key) \/ ~Truthy(api_secret))) =>
        /\ net = <<>>
        /\ pc # "returned"
        /\ pc = "raised" => exc = "ValueError"

\* C7: when the API secret is missing (None or empty), submit_txt2img,
\* poll_job and fetch_asset_url each end with ValueError after sending no
\* HTTP request at all (main stops even earlier, also without a request).
C7_MissingSecretZeroNetworkCalls ==
    (entry \in AuthEntries /\ ~Truthy(api_secret)) =>
        /\ Len(net) = 0
        /\ pc \in {"main", "submit", "poll", "fetch", "raised"}
        /\ pc = "raised" => exc = (IF InMain THEN "SystemExit" ELSE "ValueError")

\* submit_txt2img called with a key and no secret has raised ValueError.
C7_Witness ==
    /\ entry = "submit_txt2img"
    /\ api_key = "key"
    /\ api_secret = NONE
    /\ pc = "raised"
    /\ exc = "ValueError"
    /\ net = <<>>

\* The asset ids of the asset requests sent so far, in order.
AssetRequestIds ==
    LET sel == SelectSeq(net, LAMBDA r : r.target[1] = "assets")
    IN [k \in 1..Len(sel) |-> sel[k].target[2]]

\* C8: after poll_job returned a success job whose metadata.assetIds is L
\* (empty when absent), main calls fetch_asset_url once per entry of L, in
\* list order, and for no other id: while the asset loop runs the calls made
\* are the entries of L before the loop position, and at the end of the
\* scene they are exactly L, whatever failed on the way.
C8_FetchAttemptedForExactlyTheIds ==
    \A s \in SceneIds :
        (InMain /\ i = s) =>
            LET L == IF job_info.hasMeta /\ job_info.hasAssetIds
                     THEN job_info.assetIds ELSE <<>>
            IN /\ pollEnd[s] # "return" => attempted = <<>>
               /\ pollEnd[s] = "return" =>
                     /\ AssetRequestIds = attempted
                     /\ pc = "assets" => attempted = <<>>
                     /\ pc = "fetch" => attempted = SubSeq(L, 1, idx - 1)
                     /\ pc \in {"download", "for_asset"} => attempted = SubSeq(L, 1, idx)
                     /\ pc = "for_scene" => attempted = L

\* The end of a scene with two assets whose first asset failed.
C8_Witness ==
    /\ InMain
    /\ pc = "for_scene"
    /\ i >= 1
    /\ pollEnd[i] = "return"
    /\ Len(job_info.assetIds) = 2
    /\ attempted = job_info.assetIds
    /\ saved[i] = {2}

\* C9: no job is polled after reaching a terminal state: a status request
\* is never sent for a job for which an earlier status request of the run
\* returned success, failure or canceled.
C9_NoPollAfterTerminal ==
    [][(Len(net') = Len(net) + 1 /\ net'[Len(net')].target[1] = "jobs") =>
         \A s \in SceneIds :
             job_id[s] = net'[Len(net')].target[2] => status[s] \notin Terminal]_vars

\* Main polls the job of scene 2 after the job of scene 1 reached success.
C9_Witness ==
    /\ InMain
    /\ i = 2
    /\ status[1] = "success"
    /\ pc = "poll_sleep"
    /\ \A k \in 1..Len(net) : net[k].target[1] = "jobs" => net[k].target[2] = job_id[2]

\* The iteration of scene s in main's loop is over.
SceneFinished(s) == i > s \/ (i = s /\ pc \in {"for_scene", "returned"})

\* The state of the generation request of scene s in the request state
\* machine, read off the program state: NONE until a job id was obtained.
ReqState(s) ==
    IF job_id[s] = NONE THEN "NONE"
    ELSE IF pollEnd[s] \in {"none", "polling"}
         THEN (IF status[s] = "unpolled" THEN "SUBMITTED" ELSE "RUNNING")
    ELSE IF pollEnd[s] = "return"
         THEN (IF ~SceneFinished(s) THEN "SUCCESS"
               ELSE IF saved[s] = 1..n_assets[s] THEN "DOWNLOADED"
               ELSE "ASSETS_FAILED")
    ELSE IF pollEnd[s] = "RuntimeError"
         THEN (IF status[s] = "failure" THEN "FAILURE" ELSE "CANCELED")
    ELSE IF pollEnd[s] = "TimeoutError" THEN "TIMEOUT"
    ELSE "POLL_ERROR"

SpecEndStates == {"DOWNLOADED", "FAILURE", "CANCELED", "TIMEOUT"}

CodeEndStates == SpecEndStates \cup {"ASSETS_FAILED", "POLL_ERROR"}

\* C10 as stated: when a run of main has ended, every request that obtained
\* a job id is in one of the four terminal states DOWNLOADED, FAILURE,
\* CANCELED, TIMEOUT.
C10_EndsInOneOfFourStates ==
    (InMain /\ RunEnded) =>
        \A s \in SceneIds : job_id[s] # NONE => ReqState(s) \in SpecEndStates

\* C10 as amended: a request enters the state machine in SUBMITTED; when a
\* run of main has ended, every request that obtained a job id is in exactly
\* one of DOWNLOADED, ASSETS_FAILED, FAILURE, CANCELED, TIMEOUT, POLL_ERROR;
\* DOWNLOADED and ASSETS_FAILED are entered only from SUCCESS, DOWNLOADED
\* only with every asset of the job saved; no transition leaves one of
\* these six states.
C10_EndsInOneOfSixStates ==
    /\ [](InMain =>
            \A s \in SceneIds :
                /\ (RunEnded /\ job_id[s] # NONE) => ReqState(s) \in CodeEndStates
                /\ ReqState(s) = "DOWNLOADED" =>
                      (status[s] = "success" /\ Cardinality(saved[s]) = n_assets[s]))
    /\ [][InMain =>
            \A s \in SceneIds :
                /\ (ReqState(s) = "NONE" /\ ReqState(s)' # "NONE") =>
                      ReqState(s)' = "SUBMITTED"
                /\ (ReqState(s)' \in {"DOWNLOADED", "ASSETS_FAILED"}
                        /\ ReqState(s) # ReqState(s)') => ReqState(s) = "SUCCESS"
                /\ ReqState(s) \in CodeEndStates => ReqState(s)' = ReqState(s)]_vars

\* A run that downloaded both assets of scene 1 and then ended on an
\* unanswered status request of scene 2.
C10_Witness ==
    /\ InMain
    /\ RunEnded
    /\ ReqState(1) = "DOWNLOADED"
    /\ n_assets[1] = 2
    /\ ReqState(2) = "POLL_ERROR"

\* The locals of main's loop body hold their initial values: nothing of an
\* earlier scene is left in them.
FreshIteration ==
    /\ resp = NoResp
    /\ job_info = NoJob
    /\ asset_ids = <<>>
    /\ idx = 0
    /\ asset_url = NONE
    /\ attempted = <<>>
    /\ net = <<>>

\* C11: when the submission of scene s in main receives a non-2xx response,
\* nothing further happens for scene s (no job id, no status request, no
\* asset, no file), the run is not aborted by it, and the next scene is
\* submitted; every scene is submitted from the same fresh loop state with
\* the same request, whatever happened to the scenes before it.
C11_SubmitHttpErrorSkipsScene ==
    InMain =>
      /\ \A s \in SceneIds :
           submitEnd[s] = "HTTPError" =>
             /\ job_id[s] = NONE
             /\ status[s] = "unpolled"
             /\ pollEnd[s] = "none"
             /\ n_assets[s] = 0
             /\ saved[s] = {}
             /\ i >= s
             /\ (i = s => /\ pc \in {"for_scene", "returned"}
                          /\ exc = "none"
                          /\ \A k \in 1..Len(net) : net[k].method = "POST")
             /\ (RunEnded /\ s < nScenes => i > s /\ posts[s + 1] = 1)
      /\ (pc = "submit" => FreshIteration /\ posts[i] = 0)
      /\ \A k \in 1..Len(net) :
           net[k].method = "POST" =>
             net[k] = Request("POST", <<"generate/txt2img", "">>, i)

\* Scene 1 was refused with a non-2xx response and scene 2 went on to have
\* a file downloaded.
C11_Witness ==
    /\ InMain
    /\ submitEnd[1] = "HTTPError"
    /\ pollEnd[2] = "return"
    /\ saved[2] # {}

\* Number of submission POSTs in the request log of the current iteration.
PostsInNet == Cardinality({k \in 1..Len(net) : net[k].method = "POST"})

\* C15: submission and polling are never retried.  At most one POST is sent
\* per scene whatever its outcome, and once a status request of a job was
\* answered with a non-2xx response the error leaves poll_job and no
\* further request is sent.
C15_NoAutomaticRetry ==
    /\ [](/\ \A s \in SceneIds : posts[s] <= 1
          /\ (entry \in AuthEntries => PostsInNet <= 1)
          /\ \A s \in SceneIds :
               /\ submitEnd[s] # "none" /\ AuthOk(api_key, api_secret)
                    => posts[s] = 1
               /\ pollEnd[s] = "HTTPError" =>
                    /\ pc = "raised"
                    /\ exc = "HTTPError"
                    /\ net # <<>>
                    /\ net[Len(net)].target = <<"jobs", job_id[s]>>)
    /\ [][\A s \in SceneIds :
            pollEnd[s] = "HTTPError" => net' = net /\ posts' = posts]_vars

\* In a run of main, scene 1 was refused with a non-2xx response and the
\* first status request of scene 2 was answered with a non-2xx response.
C15_Witness ==
    /\ InMain
    /\ submitEnd[1] = "HTTPError"
    /\ posts[1] = 1
    /\ pollEnd[2] = "HTTPError"
    /\ Len(net) = 2

\* C12: an error while resolving or downloading one asset stays with that
\* asset.  It never ends the run; at every point of the asset loop all
\* positions up to the current one were attempted, failed ones included,
\* so at the end of the scene every asset was attempted; what was saved
\* stays saved; and the scene after it is submitted.
C12_AssetErrorIsolated ==
    InMain =>
      \A s \in SceneIds :
        pollEnd[s] = "return" =>
          /\ saved[s] \subseteq 1..n_assets[s]
          /\ (i = s =>
                /\ pc # "raised"
                /\ exc = "none"
                /\ (pc = "fetch" => Len(attempted) = idx - 1)
                /\ (pc \in {"download", "download_write", "for_asset"}
                      => Len(attempted) = idx)
                /\ (pc = "for_scene" => Len(attempted) = n_assets[s]))
          /\ (RunEnded /\ s < nScenes => i > s /\ posts[s + 1] = 1)

\* The first asset of scene 1 failed, its second asset was saved, and an
\* asset of scene 2 was saved afterwards.
C12_Witness ==
    /\ InMain
    /\ RunEnded
    /\ n_assets[1] = 2
    /\ saved[1] = {2}
    /\ saved[2] # {}

\* C13: whatever is at the destination before the call, a call of
\* download_file that returns leaves exactly the remote bytes there, and
\* while it writes the file holds exactly the bytes of the chunks read so
\* far; so a call on top of an earlier complete download leaves the file
\* as it was.
C13_DownloadIdempotent ==
    entry = "download_file" =>
      /\ (pc = "download_write" =>
            file = [exists |-> TRUE, bytes |-> Flatten(SubSeq(remote, 1, pos))])
      /\ (pc = "returned" =>
            /\ file = [exists |-> TRUE, bytes |-> Flatten(remote)]
            /\ (calls > 1 /\ before = [exists |-> TRUE, bytes |-> Flatten(remote)]
                  => file = before))

\* The second call returned on top of the partial file the first, failed
\* call had left.
C13_Witness ==
    /\ entry = "download_file"
    /\ calls = 2
    /\ pc = "returned"
    /\ before.exists
    /\ Len(before.bytes) = 1
    /\ Len(file.bytes) = 2
    /\ before.bytes = SubSeq(file.bytes, 1, 1)

\* The (scene, position) pairs whose file was saved in this run.
SavedPairs == {<<s, k>> \in SceneIds \X (1..MaxAssets) : k \in saved[s]}

\* C14: in a run of main the file of the asset at position idx of scene i
\* is outputs/scene_<i, 3 digits>/scene_<i, 3 digits>_asset_<idx>.png,
\* where i is the position of the scene in the input list, counting the
\* scenes that failed or were skipped; different (scene, position) pairs
\* have different paths, and the destination of a download is never a file
\* saved earlier in the run.
C14_PathsDistinctAndPositional ==
    InMain =>
         /\ (pc \in {"download", "download_write"} =>
               /\ dest = PathOf(i, idx)
               /\ (i = 1 /\ idx = 1
                     => dest = "outputs/scene_001/scene_001_asset_1.png")
               /\ i = Cardinality({s \in SceneIds : submitEnd[s] # "none"})
               /\ \A q \in SavedPairs : PathOf(q[1], q[2]) # dest)
         /\ \A q1 \in SavedPairs, q2 \in SavedPairs :
              q1 # q2 => PathOf(q1[1], q1[2]) # PathOf(q2[1], q2[2])

\* Scene 1 was refused at submission; the second asset of scene 2 is being
\* written after its first asset was saved.
C14_Witness ==
    /\ InMain
    /\ submitEnd[1] = "HTTPError"
    /\ i = 2
    /\ idx = 2
    /\ saved[2] = {1}
    /\ pc = "download_write"
    /\ dest = "outputs/scene_002/scene_002_asset_2.png"

\* The statuses poll_job does not recognise: absent, or any string other
\* than success, failure and canceled.
Unrecognized == Statuses \ Terminal

\* C16: with a poll interval > 0 and HTTP calls that return, every call of
\* poll_job ends, whatever statuses are reported.  A status that is not
\* recognised is treated as non-terminal: the call either goes on polling
\* or ends with the timeout error (or with the error of a later request),
\* and the number of status requests is bounded by the timeout:
\* at most timeout / poll_interval + 2.
C16_PollJobTerminates ==
    /\ <>RunEnded
    /\ [](/\ poll_interval > 0
          /\ Len(net) * poll_interval <= timeout + 2 * poll_interval
          /\ (status[1] \in Unrecognized /\ PollEnded(1)
                => pollEnd[1] \in {"TimeoutError", "HTTPError", "ConnectionError"})
          /\ (status[1] \in Unrecognized /\ pc = "poll_sleep"
                => elapsed <= timeout))

\* A call that saw an absent status three times or more and ended with the
\* timeout error.
C16_Witness ==
    /\ entry = "poll_job"
    /\ status[1] = NONE
    /\ Len(net) >= 3
    /\ pollEnd[1] = "TimeoutError"
    /\ pc = "raised"

\* C17: in poll_job the status is checked before the timeout and the first
\* status request precedes every sleep.  A call that got past the auth
\* headers sends its first request at elapsed time 0 and has sent at least
\* one request whenever it sleeps or has ended; an observed success ends
\* the call with the job and an observed failure or cancellation with the
\* remote-failure error, whatever the elapsed time.
C17_StatusCheckedBeforeTimeout ==
    /\ \A s \in SceneIds :
         /\ status[s] = "success" => pollEnd[s] = "return"
         /\ status[s] \in {"failure", "canceled"} => pollEnd[s] = "RuntimeError"
    /\ entry = "poll_job" =>
         /\ (pc = "poll_get" /\ net = <<>> => elapsed = 0)
         /\ (pc = "poll_sleep" => net # <<>>)
         /\ (PollEnded(1) /\ pollEnd[1] # "ValueError" =>
               /\ net # <<>>
               /\ net[1] = Request("GET", <<"jobs", job_id[1]>>, 0))

\* With timeout 0 the only status request took time and reported success:
\* the job is returned although the deadline had passed.
C17_Witness ==
    /\ entry = "poll_job"
    /\ timeout = 0
    /\ Len(net) = 1
    /\ status[1] = "success"
    /\ pc = "returned"
    /\ elapsed > timeout

\* The answer to the last request of the search_google call.
LastAnswer == answers[Len(answers)]

\* C18: one call of search_google sends at most 3 requests.  Every request
\* but the last was answered with a status other than 200, and another
\* attempt is only pending after such an answer and fewer than 3 attempts;
\* the call returns exactly when the last answer is the first 200; an
\* exception of the HTTP library ends the call at once with that
\* exception; a third non-200 answer ends it with RetryError.
C18_SearchAtMostThreeRequests ==
    entry = "search_google" =>
      /\ Len(net) <= StopAfterAttempt
      /\ Len(answers) = Len(net)
      /\ \A k \in 1..Len(net) : net[k].method = "POST"
      /\ \A k \in 1..(Len(answers) - 1) : answers[k] = "non200"
      /\ (pc = "search" => Len(net) = attempt - 1 /\ attempt <= StopAfterAttempt)
      /\ (pc = "search_wait" =>
            /\ LastAnswer = "non200"
            /\ Len(net) = attempt
            /\ attempt < StopAfterAttempt)
      /\ (answers # <<>> =>
            /\ (LastAnswer = "200") <=> (pc = "returned")
            /\ (LastAnswer = "transport")
                 <=> (pc = "raised" /\ exc = "ConnectionError")
            /\ (LastAnswer = "non200" /\ Len(answers) = StopAfterAttempt)
                 <=> (pc = "raised" /\ exc = "RetryError"))

\* Three requests, each answered with a status other than 200.
C18_Witness ==
    /\ entry = "search_google"
    /\ answers = <<"non200", "non200", "non200">>
    /\ Len(net) = 3
    /\ pc = "raised"
    /\ exc = "RetryError"

====
